---- MODULE Spec2Model ----
(***************************************************************************)
(* Model of the Telegram broadcast scheduler: the file-based target and   *)
(* message stores (app.py), the scheduler job store filled by             *)
(* schedule_jobs, the phase jobs (job_runner_sync), the broadcast gate    *)
(* SEND_LOCK (run_broadcast_now) and the batch broadcaster                *)
(* (tg_client.broadcast, validate_lengths).                               *)
(***************************************************************************)
EXTENDS Integers, Sequences, FiniteSets, TLC

VARIABLES
    targets,    \* data/chat_targets.json: [chat_ids, default_batch_size]
    message,    \* data/message.json: [text, media_path]
    jobs,       \* the scheduler's job store (a set of job records)
    nextId,     \* number of job ids handed out so far (ids are fresh uuids)
    lastApply,  \* the last schedule_jobs call: its inputs, outcome, store before
    lock,       \* SEND_LOCK: 0 when free, else the thread holding it
    th,         \* per thread: position and locals of its handler
    sendLog,    \* every send attempt, in the order they happened
    errLog,     \* logger.exception records of broadcast
    files       \* data/uploads: the content of each uploaded file

vars == <<targets, message, jobs, nextId, lastApply, lock, th, sendLog, errLog,
          files>>

-----------------------------------------------------------------------------
(* Bounds *)

NThreads == 2     \* threads that trigger a broadcast concurrently
MaxGateLen == 2   \* longest destination list of a concurrent broadcast
MaxLen == 4       \* longest destination list of a single broadcast
MaxBatch == 3     \* largest batch size
MaxSlots == 2     \* most slots given to one schedule_jobs call
MaxApplies == 2   \* most schedule_jobs calls in one run
MaxOver == 2      \* text lengths are explored up to a limit + MaxOver

-----------------------------------------------------------------------------
(* Values *)

None == "None"

Dests == {"a", "b"}

Min(a, b) == IF a <= b THEN a ELSE b

SeqsUpTo(S, n) == UNION {[1..k -> S] : k \in 0..n}

DestLists == SeqsUpTo(Dests, MaxLen)

BatchSizes == 1..MaxBatch

\* the list a, b, a, b, ... of n destinations
ABList(n) == [k \in 1..n |-> IF k % 2 = 1 THEN "a" ELSE "b"]

\* a text is a sequence of characters; a character is a small number
Chr(i) == i % 7

TextOfLen(n) == [i \in 1..n |-> Chr(i)]

MediaPaths == {None, "pic.jpg"}

\* Python truthiness of a list or a text: `if chat_ids`, `if not text`
Truthy(s) == Len(s) > 0

\* Python truthiness of an optional path: `if media_path`
TruthyPath(p) == p # None /\ p # ""

\* Python slice s[lo:hi] for 0 <= lo, 0 <= hi
PySlice(s, lo, hi) == SubSeq(s, Min(lo, Len(s)) + 1, Min(hi, Len(s)))

\* Python slice s[lo:]
PySliceFrom(s, lo) == SubSeq(s, Min(lo, Len(s)) + 1, Len(s))

-----------------------------------------------------------------------------
(* tg_client.validate_lengths *)

TEXT_LIMIT == 4096

CAPTION_LIMIT == 1024

\* validate_lengths with the text limit applied to captions too
validate_lengths_OneLimit(text, has_media) ==
    IF ~Truthy(text) THEN <<>>
    ELSE IF Len(text) > TEXT_LIMIT THEN PySlice(text, 0, TEXT_LIMIT) ELSE text

validate_lengths(text, has_media) ==
    IF ~Truthy(text) THEN <<>>
    ELSE LET max_len == IF has_media THEN CAPTION_LIMIT ELSE TEXT_LIMIT
         IN  IF Len(text) > max_len THEN PySlice(text, 0, max_len) ELSE text

-----------------------------------------------------------------------------
(* The persistence helpers of app.py *)

DEFAULT_BATCH_SIZE == 15

\* load_targets() on a missing file
NoTargets == [chat_ids |-> <<>>, default_batch_size |-> DEFAULT_BATCH_SIZE]

\* load_message() on a missing file
NoMessage == [text |-> <<>>, media_path |-> None]

load_targets == targets

load_message == message

\* main(): the "Save targets" button
SaveTargets(items, batch_size) ==
    /\ targets' = [targets EXCEPT !.chat_ids = items,
                                  !.default_batch_size = batch_size]
    /\ UNCHANGED <<message, jobs, nextId, lastApply, lock, th, sendLog, errLog, files>>

\* the contents an uploaded file can have
Contents == {"v1", "v2"}

\* main(): a file given to the uploader is written to data/uploads under its
\* own name on every run of the script, over a file of that name
Upload(name, content) ==
    /\ files' = [files EXCEPT ![name] = content]
    /\ UNCHANGED <<targets, message, jobs, nextId, lastApply, lock, th, sendLog, errLog>>

\* main(): the "Save message" and "Clear saved media path" buttons
SaveMessage(text, media_path) ==
    /\ message' = [text |-> text, media_path |-> media_path]
    /\ UNCHANGED <<targets, jobs, nextId, lastApply, lock, th, sendLog, errLog, files>>

-----------------------------------------------------------------------------
(* schedule_jobs *)

TAG == "tg_broadcast"

\* a datetime.time is <<hour, minute>>; anything else is not a time
IsTime(t) == Len(t) = 2

NotATime == <<>>

\* an int offset is <<n>>; anything else is not a number
IsInt(o) == Len(o) = 1

NotANumber == <<>>

\* f"tg_broadcast_phase{p}_{hour:02d}{minute:02d}"
JobName(phase, t) == <<TAG, phase, t[1], t[2]>>

\* job.name.startswith("tg_broadcast")
StartsWithTag(name) == Truthy(name) /\ name[1] = TAG

\* Hour2 without the carry of the minutes into the hour
Hour2_NoCarry(t, off) == t[1] % 24

Minute2(t, off) == (t[2] + off) % 60

Hour2(t, off) == (t[1] + ((t[2] + off) \div 60)) % 24

\* sched.add_job(...) without an id: the job gets a fresh id
Job(id, phase, t, hour, minute, batch_size) ==
    [id |-> id, name |-> JobName(phase, t), hour |-> hour, minute |-> minute,
     second |-> 0, phase |-> phase, batch_size |-> batch_size]

\* ClearOwnJobs that removes nothing
ClearOwnJobs_None(js) == js

\* ClearOwnJobs without the startswith test: every named job is removed
ClearOwnJobs_Named(js) == {j \in js : ~Truthy(j.name)}

\* the loop that clears the jobs created by this app
ClearOwnJobs(js) == {j \in js : ~StartsWithTag(j.name)}

\* the loop `for t in times`, from position k on; an exception ends the call
\* and leaves the store as it is at that point
RECURSIVE RegisterFrom(_, _, _, _, _, _)
RegisterFrom(js, nid, times, k, off, batch_size) ==
    IF k > Len(times) THEN [jobs |-> js, nextId |-> nid, raised |-> FALSE]
    ELSE LET t == times[k] IN
         IF ~IsTime(t) THEN [jobs |-> js, nextId |-> nid, raised |-> TRUE]
         ELSE LET js1 == js \cup {Job(nid + 1, 1, t, t[1], t[2], batch_size)} IN
              IF ~IsInt(off)
              THEN [jobs |-> js1, nextId |-> nid + 1, raised |-> TRUE]
              ELSE LET js2 == js1 \cup {Job(nid + 2, 2, t, Hour2(t, off[1]),
                                            Minute2(t, off[1]), batch_size)}
                   IN  RegisterFrom(js2, nid + 2, times, k + 1, off, batch_size)

ScheduleJobsResult(js, nid, times, off, batch_size) ==
    RegisterFrom(ClearOwnJobs(js), nid, times, 1, off, batch_size)

schedule_jobs(times, second_phase_offset_min, batch_size) ==
    /\ lastApply.count < MaxApplies
    /\ LET r == ScheduleJobsResult(jobs, nextId, times, second_phase_offset_min,
                                   batch_size)
       IN  /\ jobs' = r.jobs
           /\ nextId' = r.nextId
           /\ lastApply' = [count |-> lastApply.count + 1, times |-> times,
                            offset |-> second_phase_offset_min,
                            batch_size |-> batch_size, raised |-> r.raised,
                            before |-> jobs]
    /\ UNCHANGED <<targets, message, lock, th, sendLog, errLog, files>>

\* main(): the "Apply schedule" button
ApplySchedule(times, phase_gap, batch_size) ==
    /\ Truthy(load_targets.chat_ids)
    /\ schedule_jobs(times, <<phase_gap>>, batch_size)

-----------------------------------------------------------------------------
(* Threads: Streamlit script threads and scheduler worker threads *)

Threads == DOMAIN th

\* the locals of a thread that is not in schedule_jobs
NoArgs == [times |-> <<>>, offset |-> <<0>>, batch_size |-> 0, todo |-> {},
           k |-> 0, phase |-> 0]

\* ui is what main() last showed on the thread's page (st.error, st.success),
\* sleeps counts the pauses of the thread's broadcast, ap holds the locals of
\* schedule_jobs
Idle == [pc |-> "idle", kind |-> "none", phase |-> 0, batch_size |-> 0,
         cfg |-> NoTargets, chat_ids |-> <<>>, text |-> <<>>,
         media_path |-> None, i |-> 0, k |-> 0, bot |-> "none",
         raised |-> FALSE, ui |-> "none", sleeps |-> 0, ap |-> NoArgs]

\* main(): a button that sends to all targets; it starts by load_targets()
SendButton(t, kind) ==
    /\ th[t].pc = "idle"
    /\ LET cfg_now == load_targets IN
       th' = [th EXCEPT ![t] =
                IF ~Truthy(cfg_now.chat_ids)
                THEN [@ EXCEPT !.pc = "done", !.kind = kind, !.cfg = cfg_now,
                               !.ui = "error"]
                ELSE [@ EXCEPT !.pc = "load_message", !.kind = kind,
                               !.cfg = cfg_now]]
    /\ UNCHANGED <<targets, message, jobs, nextId, lastApply, lock, sendLog, errLog, files>>

\* main(): the "Send Now (batched)" button
SendNow(t) == SendButton(t, "button")

\* main(): the "Send test now (all targets)" button
SendTest(t) == SendButton(t, "button")

\* main(): msg_now = load_message() and the arguments of run_broadcast_now
ButtonLoadMessage(t) ==
    /\ th[t].pc = "load_message"
    /\ th[t].kind = "button"
    /\ LET msg_now == load_message IN
       th' = [th EXCEPT ![t] =
                [@ EXCEPT !.pc = "acquire",
                          !.text = msg_now.text,
                          !.media_path = msg_now.media_path,
                          !.batch_size = th[t].cfg.default_batch_size,
                          !.chat_ids = th[t].cfg.chat_ids]]
    /\ UNCHANGED <<targets, message, jobs, nextId, lastApply, lock, sendLog, errLog, files>>

\* the scheduler fires job j on a worker thread: job_runner_sync up to the
\* check of chat_ids
FireJob(t, j) ==
    /\ th[t].pc = "idle"
    /\ j \in jobs
    /\ StartsWithTag(j.name)
    /\ LET cfg == load_targets IN
       th' = [th EXCEPT ![t] =
                IF ~Truthy(cfg.chat_ids)
                THEN [@ EXCEPT !.pc = "done", !.kind = "job", !.cfg = cfg,
                               !.phase = j.phase, !.batch_size = j.batch_size]
                ELSE [@ EXCEPT !.pc = "load_message", !.kind = "job",
                               !.cfg = cfg, !.phase = j.phase,
                               !.batch_size = j.batch_size]]
    /\ UNCHANGED <<targets, message, jobs, nextId, lastApply, lock, sendLog, errLog, files>>

\* PhaseIds with a remainder that starts one chat too early
PhaseIds_Overlap(phase, chat_ids, batch_size) ==
    IF phase = 1 THEN PySlice(chat_ids, 0, batch_size)
    ELSE PySliceFrom(chat_ids, batch_size - 1)

\* PhaseIds with a remainder that starts one chat too late
PhaseIds_Gap(phase, chat_ids, batch_size) ==
    IF phase = 1 THEN PySlice(chat_ids, 0, batch_size)
    ELSE PySliceFrom(chat_ids, batch_size + 1)

\* job_runner_sync: the destinations of a phase
PhaseIds(phase, chat_ids, batch_size) ==
    IF phase = 1 THEN PySlice(chat_ids, 0, batch_size)
    ELSE PySliceFrom(chat_ids, batch_size)

\* JobLoadMessage without the `if not ids` return
JobLoadMessage_NoCheck(t) ==
    /\ th[t].pc = "load_message"
    /\ th[t].kind = "job"
    /\ LET msg == load_message
           ids == PhaseIds(th[t].phase, th[t].cfg.chat_ids, th[t].batch_size)
       IN  th' = [th EXCEPT ![t] =
                    [@ EXCEPT !.pc = "acquire",
                              !.text = msg.text,
                              !.media_path = msg.media_path,
                              !.chat_ids = ids]]
    /\ UNCHANGED <<targets, message, jobs, nextId, lastApply, lock, sendLog, errLog, files>>

\* job_runner_sync from load_message() to the call of run_broadcast_now
JobLoadMessage(t) ==
    /\ th[t].pc = "load_message"
    /\ th[t].kind = "job"
    /\ LET msg == load_message
           ids == PhaseIds(th[t].phase, th[t].cfg.chat_ids, th[t].batch_size)
       IN  th' = [th EXCEPT ![t] =
                    [@ EXCEPT !.pc = IF ~Truthy(ids) THEN "done" ELSE "acquire",
                              !.text = msg.text,
                              !.media_path = msg.media_path,
                              !.chat_ids = ids]]
    /\ UNCHANGED <<targets, message, jobs, nextId, lastApply, lock, sendLog, errLog, files>>

\* the locals of schedule_jobs(times, second_phase_offset_min, batch_size)
\* at its first statement
ApplyArgs(times, phase_gap, batch_size) ==
    [times |-> times, offset |-> <<phase_gap>>, batch_size |-> batch_size,
     todo |-> {}, k |-> 1, phase |-> 1]

\* ApplyButton without the check of the stored targets
ApplyButton_NoGuard(t, times, phase_gap, batch_size) ==
    /\ th[t].pc = "idle"
    /\ th' = [th EXCEPT ![t] =
                [@ EXCEPT !.pc = "ap_get", !.kind = "apply",
                          !.cfg = load_targets,
                          !.ap = ApplyArgs(times, phase_gap, batch_size)]]
    /\ UNCHANGED <<targets, message, jobs, nextId, lastApply, lock, sendLog, errLog, files>>

\* main(): the "Apply schedule" button on a script thread: st.error when no
\* targets are stored, else the call of schedule_jobs, taken step by step by
\* the three actions below
ApplyButton(t, times, phase_gap, batch_size) ==
    /\ th[t].pc = "idle"
    /\ LET cfg_now == load_targets IN
       th' = [th EXCEPT ![t] =
                IF ~Truthy(cfg_now.chat_ids)
                THEN [@ EXCEPT !.pc = "done", !.kind = "apply",
                               !.cfg = cfg_now, !.ui = "error"]
                ELSE [@ EXCEPT !.pc = "ap_get", !.kind = "apply",
                               !.cfg = cfg_now,
                               !.ap = ApplyArgs(times, phase_gap, batch_size)]]
    /\ UNCHANGED <<targets, message, jobs, nextId, lastApply, lock, sendLog, errLog, files>>

\* schedule_jobs: list(sched.get_jobs()), a copy of the store at this moment;
\* todo holds the jobs of the copy that the loop will remove
ApplyGetJobs(t) ==
    /\ th[t].pc = "ap_get"
    /\ th' = [th EXCEPT ![t].pc = "ap_remove",
                        ![t].ap.todo = {j \in jobs : StartsWithTag(j.name)}]
    /\ UNCHANGED <<targets, message, jobs, nextId, lastApply, lock, sendLog, errLog, files>>

\* schedule_jobs: one sched.remove_job(job.id) of the clearing loop; it
\* raises JobLookupError when the job is no longer in the store
ApplyRemove(t) ==
    /\ th[t].pc = "ap_remove"
    /\ IF th[t].ap.todo = {}
       THEN /\ th' = [th EXCEPT ![t].pc = "ap_add"]
            /\ jobs' = jobs
       ELSE \E j \in th[t].ap.todo :
               IF j \in jobs
               THEN /\ jobs' = jobs \ {j}
                    /\ th' = [th EXCEPT ![t].ap.todo = @ \ {j}]
               ELSE /\ jobs' = jobs
                    /\ th' = [th EXCEPT ![t].pc = "done", ![t].raised = TRUE]
    /\ UNCHANGED <<targets, message, nextId, lastApply, lock, sendLog, errLog, files>>

\* schedule_jobs: one sched.add_job of the loop `for t in times`, phase 1 then
\* phase 2 of slot k; after the last slot the button shows st.success
ApplyAdd(t) ==
    /\ th[t].pc = "ap_add"
    /\ LET a == th[t].ap IN
       IF a.k > Len(a.times)
       THEN /\ th' = [th EXCEPT ![t].pc = "done", ![t].ui = "success"]
            /\ UNCHANGED <<jobs, nextId>>
       ELSE LET s == a.times[a.k] IN
            /\ nextId' = nextId + 1
            /\ jobs' = jobs \cup
                 {IF a.phase = 1
                  THEN Job(nextId + 1, 1, s, s[1], s[2], a.batch_size)
                  ELSE Job(nextId + 1, 2, s, Hour2(s, a.offset[1]),
                           Minute2(s, a.offset[1]), a.batch_size)}
            /\ th' = [th EXCEPT ![t].ap.phase = IF a.phase = 1 THEN 2 ELSE 1,
                                ![t].ap.k = IF a.phase = 1 THEN a.k ELSE a.k + 1]
    /\ UNCHANGED <<targets, message, lastApply, lock, sendLog, errLog, files>>

\* a step of schedule_jobs on thread t
ApplyStep(t) == ApplyGetJobs(t) \/ ApplyRemove(t) \/ ApplyAdd(t)

-----------------------------------------------------------------------------
(* run_broadcast_now and tg_client.broadcast *)

\* Acquire without the wait: the caller enters while the lock is held
Acquire_NoBlock(t) ==
    /\ th[t].pc = "acquire"
    /\ lock' = t
    /\ th' = [th EXCEPT ![t].pc = "make_bot"]
    /\ UNCHANGED <<targets, message, jobs, nextId, lastApply, sendLog, errLog, files>>

\* Acquire as a try-lock: a caller that finds the lock held gives up
Acquire_OrSkip(t) ==
    /\ th[t].pc = "acquire"
    /\ IF lock = 0
       THEN /\ lock' = t
            /\ th' = [th EXCEPT ![t].pc = "make_bot"]
       ELSE /\ lock' = lock
            /\ th' = [th EXCEPT ![t].pc = "done"]
    /\ UNCHANGED <<targets, message, jobs, nextId, lastApply, sendLog, errLog, files>>

\* `with SEND_LOCK:` blocks until the lock is free
Acquire(t) ==
    /\ th[t].pc = "acquire"
    /\ lock = 0
    /\ lock' = t
    /\ th' = [th EXCEPT ![t].pc = "make_bot"]
    /\ UNCHANGED <<targets, message, jobs, nextId, lastApply, sendLog, errLog, files>>

\* the first position of the loops of broadcast over a list of `total` chats;
\* range(0, total, 0) raises ValueError, which leaves broadcast
LoopStart(r, total) ==
    IF r.batch_size = 0 THEN [r EXCEPT !.pc = "teardown", !.raised = TRUE]
    ELSE IF total > 0 /\ r.batch_size > 0
         THEN [r EXCEPT !.pc = "send", !.i = 0, !.k = 1]
         ELSE [r EXCEPT !.pc = "teardown"]

\* `async with make_bot() as bot:` a fresh client is built and initialised,
\* which can fail (bad token, network); then broadcast starts
MakeBot(t, ok) ==
    /\ th[t].pc = "make_bot"
    /\ th' = [th EXCEPT ![t] =
                IF ok
                THEN LoopStart([@ EXCEPT !.bot = "live"], Len(th[t].chat_ids))
                ELSE [@ EXCEPT !.pc = "release", !.bot = "closed",
                               !.raised = TRUE]]
    /\ UNCHANGED <<targets, message, jobs, nextId, lastApply, lock, sendLog, errLog, files>>

\* batch = chat_ids[i:i + batch_size]
Batch(r) == PySlice(r.chat_ids, r.i, r.i + r.batch_size)

\* LoopNext with a range step that is one too large
LoopNext_SkipOne(r) ==
    IF r.k < Len(PySlice(r.chat_ids, r.i, r.i + r.batch_size))
    THEN [r EXCEPT !.pc = "send", !.k = r.k + 1]
    ELSE IF r.i + r.batch_size + 1 < Len(r.chat_ids)
         THEN [r EXCEPT !.pc = "send", !.i = r.i + r.batch_size + 1, !.k = 1]
         ELSE [r EXCEPT !.pc = "teardown"]

\* the position after the one at (i, k): next chat of the batch, else next batch
LoopNext(r) ==
    IF r.k < Len(Batch(r)) THEN [r EXCEPT !.pc = "send", !.k = r.k + 1]
    ELSE IF r.i + r.batch_size < Len(r.chat_ids)
         THEN [r EXCEPT !.pc = "send", !.i = r.i + r.batch_size, !.k = 1]
         ELSE [r EXCEPT !.pc = "teardown"]

\* what a send to one chat can do: succeed, or raise (out of the provider
\* call or, with media, out of open(file_path))
Outcomes == {"ok", "error"}

\* AfterFailure without the except clause: the exception leaves broadcast
AfterFailure_Abort(r) == [r EXCEPT !.pc = "teardown", !.raised = TRUE]

\* AfterFailure with the pause inside the try block: a failed send skips it
AfterFailure_NoPause(r) == LoopNext(r)

\* the thread after a send that raised: the exception is caught and logged
AfterFailure(r) == [r EXCEPT !.pc = "sleep"]

\* the body of `for cid in batch` up to the sleep: one send attempt
Send(t, outcome) ==
    /\ th[t].pc = "send"
    /\ LET r == th[t]
           cid == Batch(r)[r.k]
           has_media == TruthyPath(r.media_path)
           sent == validate_lengths(r.text, has_media)
       IN  /\ sendLog' = Append(sendLog,
                  [th |-> t, cid |-> cid, text |-> sent,
                   media_path |-> IF has_media THEN r.media_path ELSE None,
                   media |-> IF has_media THEN files[r.media_path] ELSE None,
                   outcome |-> outcome])
           /\ IF outcome = "ok"
              THEN /\ th' = [th EXCEPT ![t].pc = "sleep"]
                   /\ errLog' = errLog
              ELSE /\ th' = [th EXCEPT ![t] = AfterFailure(r)]
                   /\ errLog' = Append(errLog, [th |-> t, cid |-> cid])
    /\ UNCHANGED <<targets, message, jobs, nextId, lastApply, lock, files>>

\* await asyncio.sleep(OVERALL_DELAY_SEC), then the loops advance
Sleep(t) ==
    /\ th[t].pc = "sleep"
    /\ th' = [th EXCEPT ![t] = LoopNext([th[t] EXCEPT !.sleeps = @ + 1])]
    /\ UNCHANGED <<targets, message, jobs, nextId, lastApply, lock, sendLog, errLog, files>>

\* Teardown without the shutdown of the client
Teardown_Leak(t) ==
    /\ th[t].pc = "teardown"
    /\ th' = [th EXCEPT ![t].pc = "release"]
    /\ UNCHANGED <<targets, message, jobs, nextId, lastApply, lock, sendLog, errLog, files>>

\* leaving `async with`: the client is shut down
Teardown(t) ==
    /\ th[t].pc = "teardown"
    /\ th' = [th EXCEPT ![t].pc = "release", ![t].bot = "closed"]
    /\ UNCHANGED <<targets, message, jobs, nextId, lastApply, lock, sendLog, errLog, files>>

\* Release with a plain acquire()/release() pair instead of the `with` block:
\* an exception skips the release
Release_KeepOnRaise(t) ==
    /\ th[t].pc = "release"
    /\ lock' = IF lock = t /\ ~th[t].raised THEN 0 ELSE lock
    /\ th' = [th EXCEPT ![t].pc = "done",
                        ![t].ui = IF th[t].kind = "button" /\ ~th[t].raised
                                  THEN "success" ELSE @]
    /\ UNCHANGED <<targets, message, jobs, nextId, lastApply, sendLog, errLog, files>>

\* leaving `with SEND_LOCK:`; a button then shows st.success unless the
\* broadcast raised
Release(t) ==
    /\ th[t].pc = "release"
    /\ lock' = IF lock = t THEN 0 ELSE lock
    /\ th' = [th EXCEPT ![t].pc = "done",
                        ![t].ui = IF th[t].kind = "button" /\ ~th[t].raised
                                  THEN "success" ELSE @]
    /\ UNCHANGED <<targets, message, jobs, nextId, lastApply, sendLog, errLog, files>>

-----------------------------------------------------------------------------
(* Specifications *)

NoApply == [count |-> 0, times |-> <<>>, offset |-> <<0>>, batch_size |-> 0,
            raised |-> FALSE, before |-> {}]

Slots == {<<9, 0>>, <<23, 50>>}

ThreadStep(t) ==
    \/ Acquire(t)
    \/ \E ok \in BOOLEAN : MakeBot(t, ok)
    \/ \E o \in Outcomes : Send(t, o)
    \/ Sleep(t)
    \/ Teardown(t)
    \/ Release(t)

Trigger(t) ==
    \/ SendNow(t)
    \/ SendTest(t)
    \/ ButtonLoadMessage(t)
    \/ \E j \in jobs : FireJob(t, j)
    \/ JobLoadMessage(t)

\* the scheduler after one "Apply schedule" of slot 09:00, offset 30 and batch
\* size b on a fresh job store
ScheduledOnce(b) ==
    LET r == ScheduleJobsResult({}, 0, <<<<9, 0>>>>, <<30>>, b) IN
    /\ jobs = r.jobs
    /\ nextId = r.nextId
    /\ lastApply = [count |-> 1, times |-> <<<<9, 0>>>>, offset |-> <<30>>,
                    batch_size |-> b, raised |-> r.raised, before |-> {}]

\* n threads about to trigger, nothing sent yet, the media file uploaded
Quiet(n) ==
    /\ lock = 0
    /\ th = [t \in 1..n |-> Idle]
    /\ sendLog = <<>>
    /\ errLog = <<>>
    /\ files = [p \in MediaPaths \ {None} |-> "v1"]

(* Concurrent triggers: NThreads threads, each pressing a send button or
   running a fired phase job, on stores saved before. *)
InitGate ==
    /\ targets \in [chat_ids : {ABList(0), ABList(MaxGateLen)},
                    default_batch_size : {1, MaxBatch}]
    /\ message \in [text : {TextOfLen(2)}, media_path : MediaPaths]
    /\ ScheduledOnce(targets.default_batch_size)
    /\ Quiet(NThreads)

NextGate == \E t \in Threads : Trigger(t) \/ ThreadStep(t)

SpecGate == InitGate /\ [][NextGate]_vars

(* Concurrent triggers on a targets file whose batch size may be 0: the file
   is read back without validation, and range(0, total, 0) raises. *)
InitExit ==
    /\ targets \in [chat_ids : {ABList(0), ABList(MaxGateLen)},
                    default_batch_size : {0, 1}]
    /\ message \in [text : {TextOfLen(2)}, media_path : MediaPaths]
    /\ ScheduledOnce(targets.default_batch_size)
    /\ Quiet(NThreads)

SpecExit == InitExit /\ [][NextGate]_vars

(* The same under fair scheduling: a thread that can take a step of
   run_broadcast_now eventually takes it. *)
InitFair ==
    /\ targets = [chat_ids |-> ABList(MaxGateLen), default_batch_size |-> 1]
    /\ message = [text |-> TextOfLen(2), media_path |-> None]
    /\ ScheduledOnce(targets.default_batch_size)
    /\ Quiet(NThreads)

FairGate ==
    /\ InitFair
    /\ [][NextGate]_vars
    /\ \A t \in 1..NThreads : WF_vars(ThreadStep(t))

(* The scheduler alone: the "Apply schedule" button, and schedule_jobs called
   with any arguments, well-formed or not. *)
MAX_GAP == 120

InitSched ==
    /\ targets \in [chat_ids : {<<>>, <<"a">>}, default_batch_size : {1}]
    /\ message = NoMessage
    /\ jobs = {}
    /\ nextId = 0
    /\ lastApply = NoApply
    /\ Quiet(1)

NextSched ==
    \/ \E times \in SeqsUpTo(Slots, MaxSlots), b \in {1, MaxBatch} :
          ApplySchedule(times, 30, b)
    \/ \E times \in SeqsUpTo(Slots \cup {NotATime}, MaxSlots),
          off \in {<<30>>, NotANumber}, b \in {1, MaxBatch} :
          schedule_jobs(times, off, b)

SpecSched == InitSched /\ [][NextSched]_vars

(* The scheduler shared with other work of the process: jobs that this app
   did not add are in the store before the first apply. A job has the name it
   was given: another name, the empty name, or a name that starts with the tag
   of this app. *)
OtherJob(id, name) ==
    [id |-> id, name |-> name, hour |-> 3, minute |-> 15, second |-> 0,
     phase |-> 0, batch_size |-> 0]

OtherJobs == {OtherJob(-1, <<"cleanup">>), OtherJob(-2, <<>>),
              OtherJob(-3, <<TAG, "report">>)}

InitShared ==
    /\ targets = [chat_ids |-> <<"a">>, default_batch_size |-> 1]
    /\ message = NoMessage
    /\ jobs = OtherJobs
    /\ nextId = 0
    /\ lastApply = NoApply
    /\ Quiet(1)

SpecShared == InitShared /\ [][NextSched]_vars

(* One "Apply schedule" of one slot, for every slot of the day and every
   offset the form accepts. *)
InitTime ==
    /\ targets = [chat_ids |-> <<"a">>, default_batch_size |-> 1]
    /\ message = NoMessage
    /\ jobs = {}
    /\ nextId = 0
    /\ lastApply = NoApply
    /\ Quiet(1)

NextTime ==
    /\ lastApply.count = 0
    /\ \E h \in 0..23, m \in 0..59, gap \in 0..MAX_GAP :
          ApplySchedule(<<<<h, m>>>>, gap, 1)

SpecTime == InitTime /\ [][NextTime]_vars

(* Store edits between firings: the schedule was applied with the stored
   batch size, then targets and message are saved again while jobs fire. *)
InitFire ==
    /\ targets \in [chat_ids : {ABList(n) : n \in 1..MaxGateLen},
                    default_batch_size : BatchSizes]
    /\ message = [text |-> TextOfLen(2), media_path |-> None]
    /\ ScheduledOnce(targets.default_batch_size)
    /\ Quiet(1)

NextFire ==
    \/ \E n \in 0..MaxGateLen, b \in BatchSizes : SaveTargets(ABList(n), b)
    \/ \E media_path \in MediaPaths : SaveMessage(TextOfLen(1), media_path)
    \/ \E name \in MediaPaths \ {None}, content \in Contents : Upload(name, content)
    \/ NextGate

SpecFire == InitFire /\ [][NextFire]_vars

(* One slot of one day: the schedule was applied with batch size b, then its
   phase-1 job and its phase-2 job fire once each, on two worker threads,
   while the targets may be saved again. *)
InitSlot ==
    /\ targets \in [chat_ids : {ABList(n) : n \in 0..MaxLen},
                    default_batch_size : {1}]
    /\ message = [text |-> TextOfLen(2), media_path |-> None]
    /\ \E b \in BatchSizes : ScheduledOnce(b)
    /\ Quiet(2)

NextSlot ==
    \/ \E t \in Threads :
          \/ \E j \in jobs :
                /\ \A u \in Threads : th[u].phase # j.phase
                /\ FireJob(t, j)
          \/ JobLoadMessage(t)
          \/ ThreadStep(t)
    \/ \E n \in {1, MaxLen} : SaveTargets(ABList(n), 1)

SpecSlot == InitSlot /\ [][NextSlot]_vars

(* Two UI sessions press "Apply schedule" at the same time, each with a slot
   list of its own, on a store that a first apply filled or left empty. *)
InitApply ==
    /\ targets = [chat_ids |-> <<"a">>, default_batch_size |-> 1]
    /\ message = NoMessage
    /\ \/ jobs = {} /\ nextId = 0 /\ lastApply = NoApply
       \/ ScheduledOnce(1)
    /\ Quiet(2)

NextApply ==
    \E t \in Threads :
       \/ \E times \in SeqsUpTo(Slots, MaxSlots) \ {<<>>} :
             ApplyButton(t, times, 30, 1)
       \/ ApplyStep(t)

SpecApply == InitApply /\ [][NextApply]_vars

(* The buttons of the page on NThreads script threads, while the targets are
   saved as an empty or a one-chat list; slot 09:00 is scheduled already. *)
InitUI ==
    /\ targets \in [chat_ids : {<<>>, <<"a">>}, default_batch_size : {1}]
    /\ message = [text |-> TextOfLen(2), media_path |-> None]
    /\ ScheduledOnce(1)
    /\ Quiet(NThreads)

NextUI ==
    \/ \E t \in Threads :
          \/ ApplyButton(t, <<<<23, 50>>>>, 30, 1)
          \/ ApplyStep(t)
          \/ SendNow(t)
          \/ SendTest(t)
          \/ ButtonLoadMessage(t)
          \/ ThreadStep(t)
    \/ \E items \in {<<>>, <<"a">>} : SaveTargets(items, 1)

SpecUI == InitUI /\ [][NextUI]_vars

(* Texts around the two length limits, sent by one thread to one chat. *)
TextLens ==
    {0, 1} \cup {CAPTION_LIMIT + d : d \in -MaxOver..MaxOver}
           \cup {TEXT_LIMIT + d : d \in -MaxOver..MaxOver}

InitText ==
    /\ targets = [chat_ids |-> <<"a">>, default_batch_size |-> 1]
    /\ message \in [text : {TextOfLen(n) : n \in TextLens}, media_path : MediaPaths]
    /\ ScheduledOnce(1)
    /\ Quiet(1)

SpecText == InitText /\ [][NextGate]_vars

(* One trigger at a time: a single thread, longer destination lists, a
   schedule applied with any batch size. *)
InitRun ==
    /\ targets \in [chat_ids : DestLists, default_batch_size : BatchSizes]
    /\ message \in [text : {TextOfLen(2)}, media_path : MediaPaths]
    /\ \E b \in BatchSizes : ScheduledOnce(b)
    /\ Quiet(1)

SpecRun == InitRun /\ [][NextGate]_vars

-----------------------------------------------------------------------------
(* Properties *)

\* the send attempts of thread t, in order
AttemptsOf(t) == SelectSeq(sendLog, LAMBDA e : e.th = t)

\* the chats of a sequence of send attempts
Cids(s) == [n \in 1..Len(s) |-> s[n].cid]

IsPrefix(s, u) == Len(s) <= Len(u) /\ \A n \in 1..Len(s) : s[n] = u[n]

\* thread t is between acquiring and releasing the gate
InFlight(t) == th[t].pc \in {"make_bot", "send", "sleep", "teardown", "release"}

\* the call of broadcast made by thread t has returned
Returned(t) ==
    /\ th[t].bot # "none"
    /\ ~th[t].raised
    /\ th[t].pc \in {"teardown", "release", "done"}

\* C1: at most one broadcast is in flight, the lock is held by the one in
\* flight, and the send attempts of two broadcasts are never interleaved: the
\* attempts of one thread form one contiguous block of the log.
C1_MutualExclusion ==
    /\ \A t, u \in Threads : InFlight(t) /\ InFlight(u) => t = u
    /\ \A t \in Threads : InFlight(t) => lock = t
    /\ \A a, c \in 1..Len(sendLog) :
          a < c /\ sendLog[a].th = sendLog[c].th => sendLog[a + 1].th = sendLog[a].th

\* a second caller stands at the gate while the first is sending, and the
\* first has sends left
C1_Witness ==
    \E t, u \in Threads :
       /\ t # u
       /\ th[t].pc = "sleep"
       /\ Len(AttemptsOf(t)) = 1
       /\ Len(th[t].chat_ids) = 2
       /\ th[u].pc = "acquire"

\* C2 as stated, in its final state: a caller that went through the gate and
\* is done has attempted all of its destinations.
C2_DoneAttemptedAll ==
    \A t \in Threads :
       th[t].pc = "done" /\ th[t].bot # "none" =>
          Cids(AttemptsOf(t)) = th[t].chat_ids

\* C2 (amended): a caller at the gate stays there until it enters (it is not
\* dropped), the holder loses the gate only by its own release, and under fair
\* scheduling the caller eventually is done, having attempted all of its
\* destinations unless the set-up of its send-client failed.
C2_BlocksNeverDrops ==
    /\ [][\A t \in 1..NThreads :
             th[t].pc = "acquire" => th'[t].pc \in {"acquire", "make_bot"}]_vars
    /\ [][\A t \in 1..NThreads :
             lock = t => lock' = t \/ (lock' = 0 /\ th[t].pc = "release")]_vars
    /\ \A t \in 1..NThreads :
          (th[t].pc = "acquire") ~>
             (th[t].pc = "done"
                /\ (th[t].raised \/ Cids(AttemptsOf(t)) = th[t].chat_ids))

\* two callers are done; the one that entered the gate second attempted both
\* of its destinations, after the sends of the first
C2_Witness ==
    \E t, u \in Threads :
       /\ t # u
       /\ th[t].pc = "done"
       /\ Len(AttemptsOf(t)) = 2
       /\ sendLog[1].th = u
       /\ sendLog[Len(sendLog)].th = t
       /\ th[u].pc = "done"

\* C3: one call of broadcast attempts the chats of its list once each, in
\* list order and in chunks of batch_size that start at multiples of
\* batch_size, and has attempted all of them when it returns.
C3_EveryDestinationOnce ==
    \A t \in Threads :
       LET r == th[t]
           done == Cids(AttemptsOf(t))
       IN  /\ IsPrefix(done, r.chat_ids)
           /\ r.pc \in {"send", "sleep"} =>
                 /\ r.i % r.batch_size = 0
                 /\ r.k \in 1..Min(r.batch_size, Len(r.chat_ids) - r.i)
                 /\ Len(done) = r.i + r.k - (IF r.pc = "send" THEN 1 ELSE 0)
           /\ Returned(t) => done = r.chat_ids

\* a broadcast of three chats with a repeated chat, in chunks of two, has
\* returned after a failed first send
C3_Witness ==
    \E t \in Threads :
       /\ Returned(t)
       /\ th[t].batch_size = 2
       /\ th[t].chat_ids = <<"a", "b", "a">>
       /\ Len(AttemptsOf(t)) = 3
       /\ AttemptsOf(t)[1].outcome = "error"

\* C4: a failed send is logged, does not leave broadcast as an exception and
\* does not end the broadcast: after it the broadcast pauses and goes on, and
\* it returns only with every chat attempted.
C4_FailureIsolation ==
    \A t \in Threads :
       LET att == AttemptsOf(t)
           failed == SelectSeq(att, LAMBDA e : e.outcome # "ok")
           logged == SelectSeq(errLog, LAMBDA e : e.th = t)
       IN  Len(failed) > 0 =>
              /\ ~th[t].raised
              /\ Cids(failed) = [n \in 1..Len(logged) |-> logged[n].cid]
              /\ Len(att) < Len(th[t].chat_ids) => th[t].pc \in {"send", "sleep"}

\* the first of four sends failed and the other three were attempted
C4_Witness ==
    \E t \in Threads :
       /\ th[t].pc = "done"
       /\ Len(th[t].chat_ids) = 4
       /\ Len(AttemptsOf(t)) = 4
       /\ AttemptsOf(t)[1].outcome = "error"
       /\ AttemptsOf(t)[4].outcome = "ok"
       /\ Len(errLog) = 1

\* C5: a phase-1 job broadcasts the first batch_size chats of the loaded list
\* and a phase-2 job the chats after them, in list order; the two parts put
\* together are the list.
C5_PhasePartition ==
    \A t \in Threads :
       LET r == th[t]
           D == r.cfg.chat_ids
           b == r.batch_size
           n1 == Min(b, Len(D))
       IN  r.kind = "job" /\ r.pc \notin {"idle", "load_message"} /\ Truthy(D) =>
              /\ r.phase = 1 => /\ Len(r.chat_ids) = n1
                                /\ \A n \in 1..n1 : r.chat_ids[n] = D[n]
              /\ r.phase = 2 => /\ Len(r.chat_ids) = Len(D) - n1
                                /\ \A n \in 1..(Len(D) - n1) : r.chat_ids[n] = D[n1 + n]
              /\ PhaseIds(1, D, b) \o PhaseIds(2, D, b) = D
              /\ Len(PhaseIds(1, D, b)) = n1

\* a phase-2 job of a four-chat list and batch size 3 broadcast the last chat
C5_Witness ==
    \E t \in Threads :
       /\ th[t].kind = "job"
       /\ th[t].phase = 2
       /\ th[t].batch_size = 3
       /\ th[t].cfg.chat_ids = <<"a", "a", "b", "b">>
       /\ Cids(AttemptsOf(t)) = <<"b">>

\* the jobs of this app in the store
OwnJobs == {j \in jobs : j.name[1] = "tg_broadcast"}

\* job j is the phase-1 job of slot t with batch size b
IsPhase1Of(j, t, b) ==
    /\ j.phase = 1 /\ j.batch_size = b
    /\ j.name = <<"tg_broadcast", 1, t[1], t[2]>>
    /\ <<j.hour, j.minute, j.second>> = <<t[1], t[2], 0>>

\* job j is the phase-2 job of slot t with offset off and batch size b
IsPhase2Of(j, t, off, b) ==
    /\ j.phase = 2 /\ j.batch_size = b
    /\ j.name = <<"tg_broadcast", 2, t[1], t[2]>>
    /\ j.hour \in 0..23 /\ j.minute \in 0..59 /\ j.second = 0
    /\ 60 * j.hour + j.minute = (60 * t[1] + t[2] + off) % 1440

\* C6: after a schedule_jobs call that returned, whatever was applied before,
\* the store holds the jobs of the last inputs and no others: a phase-1 and a
\* phase-2 job for every slot given, 2 x |slots| jobs, none of them a job of
\* an earlier apply.
C6_ReapplyReplaces ==
    lastApply.count > 0 /\ ~lastApply.raised =>
       LET Y == lastApply
           off == Y.offset[1]
       IN  /\ Cardinality(OwnJobs) = 2 * Len(Y.times)
           /\ \A j \in OwnJobs : \A o \in Y.before : o.id # j.id
           /\ \A k \in 1..Len(Y.times) :
                 /\ \E j \in OwnJobs : IsPhase1Of(j, Y.times[k], Y.batch_size)
                 /\ \E j \in OwnJobs : IsPhase2Of(j, Y.times[k], off, Y.batch_size)
           /\ \A j \in OwnJobs : \E k \in 1..Len(Y.times) :
                 \/ IsPhase1Of(j, Y.times[k], Y.batch_size)
                 \/ IsPhase2Of(j, Y.times[k], off, Y.batch_size)

\* a schedule of two slots was replaced by a schedule of one other slot
C6_Witness ==
    /\ lastApply.count = 2
    /\ ~lastApply.raised
    /\ Cardinality(lastApply.before) = 4
    /\ lastApply.times = <<<<23, 50>>>>
    /\ Cardinality(jobs) = 2
    /\ \A o \in lastApply.before : o.hour = 9

\* C7: a fired phase job partitions the destination list it loaded with the
\* batch size stored with that list at firing time.
C7_BatchSizeReadAtFiring ==
    \A t \in Threads :
       LET r == th[t] IN
       r.kind = "job" /\ r.pc \notin {"idle", "load_message"} /\ Truthy(r.cfg.chat_ids) =>
          r.chat_ids = IF r.phase = 1
                       THEN PySlice(r.cfg.chat_ids, 0, r.cfg.default_batch_size)
                       ELSE PySliceFrom(r.cfg.chat_ids, r.cfg.default_batch_size)

\* C8: after a schedule_jobs call that raised, the job store is what it was
\* before the call.
C8_ApplyAllOrNothing ==
    lastApply.count > 0 /\ lastApply.raised => jobs = lastApply.before

\* C9: the phase-1 job of a slot fires at (h, m, 0); its phase-2 job fires at
\* a valid time of day that is the slot time plus the offset in minutes,
\* counted around the 24-hour clock, with the hour and minute the formula gives.
C9_Phase2FireTime ==
    lastApply.count > 0 /\ ~lastApply.raised =>
       \A k \in 1..Len(lastApply.times) :
          LET t == lastApply.times[k]
              off == lastApply.offset[1]
              P1 == {j \in jobs : j.phase = 1 /\ j.name[3] = t[1] /\ j.name[4] = t[2]}
              P2 == {j \in jobs : j.phase = 2 /\ j.name[3] = t[1] /\ j.name[4] = t[2]}
          IN  /\ P1 # {} /\ P2 # {}
              /\ \A j \in P1 : <<j.hour, j.minute, j.second>> = <<t[1], t[2], 0>>
              /\ \A j \in P2 :
                    /\ j.hour \in 0..23 /\ j.minute \in 0..59 /\ j.second = 0
                    /\ 60 * j.hour + j.minute = (60 * t[1] + t[2] + off) % 1440
                    /\ j.hour = (t[1] + ((t[2] + off) \div 60)) % 24
                    /\ j.minute = (t[2] + off) % 60
                    /\ t = <<9, 0>> /\ off = 30 => <<j.hour, j.minute>> = <<9, 30>>
                    /\ t = <<23, 50>> /\ off = 30 => <<j.hour, j.minute>> = <<0, 20>>

\* slot 23:50 with offset 30: the phase-2 job is in the store at 00:20
C9_Witness ==
    /\ lastApply.times = <<<<23, 50>>>>
    /\ lastApply.offset = <<30>>
    /\ \E j \in jobs : j.phase = 2 /\ j.hour = 0 /\ j.minute = 20

\* C10: the text of every send attempt is the first min(len, limit) characters
\* of the text of the broadcast, the limit being 1024 with a media path and
\* 4096 without; the attempt is made whatever the length.
C10_TextTruncation ==
    \A n \in 1..Len(sendLog) :
       LET e == sendLog[n]
           orig == th[e.th].text
           limit == IF th[e.th].media_path # None THEN 1024 ELSE 4096
       IN  /\ Len(e.text) = Min(Len(orig), limit)
           /\ IsPrefix(e.text, orig)
           /\ e.media_path = th[e.th].media_path

\* a caption of 1026 characters was sent as its first 1024 characters
C10_Witness ==
    \E n \in 1..Len(sendLog) :
       /\ sendLog[n].media_path # None
       /\ Len(th[sendLog[n].th].text) = 1026
       /\ Len(sendLog[n].text) = 1024

\* C11: a fired phase job whose destination subset is empty (nothing stored,
\* or phase 2 of a list of at most batch_size chats) has returned without an
\* exception, without a send attempt, without a send-client and without the
\* gate; it never stands at the gate.
C11_EmptyPhaseNoOp ==
    \A t \in Threads :
       LET r == th[t]
           D == r.cfg.chat_ids
       IN  /\ r.kind = "job"
           /\ r.pc \notin {"idle", "load_message"}
           /\ (Len(D) = 0 \/ (r.phase = 2 /\ Len(D) <= r.batch_size))
           => /\ r.pc = "done"
              /\ ~r.raised
              /\ r.bot = "none"
              /\ AttemptsOf(t) = <<>>
              /\ lock # t

\* the phase-2 job of a two-chat list with batch size 3 has returned
C11_Witness ==
    \E t \in Threads :
       /\ th[t].kind = "job"
       /\ th[t].phase = 2
       /\ th[t].batch_size = 3
       /\ Len(th[t].cfg.chat_ids) = 2
       /\ th[t].pc = "done"
       /\ sendLog = <<>>

\* C15: within a broadcast the pauses alternate with the send attempts: a
\* thread about to send has paused once after each earlier attempt, a thread
\* that has just attempted (successfully or not) is one pause behind, and a
\* broadcast that leaves the loop has paused once per attempt, the last
\* destination included.
C15_ThrottleOrdering ==
    \A t \in Threads :
       LET r == th[t]
           n == Len(AttemptsOf(t))
       IN  /\ r.pc = "send" => r.sleeps = n
           /\ r.pc = "sleep" => n > 0 /\ r.sleeps = n - 1
           /\ r.pc \in {"teardown", "release", "done"} => r.sleeps = n

\* a broadcast over three chats has returned after a failed last attempt
C15_Witness ==
    \E t \in Threads :
       /\ th[t].pc = "done"
       /\ Len(AttemptsOf(t)) = 3
       /\ th[t].sleeps = 3
       /\ sendLog[Len(sendLog)].outcome = "error"

\* C14: a send-client exists only inside the gate: a caller that has not yet
\* passed the gate has none, a live client belongs to the holder of the gate
\* (so at most one is live), a caller that is releasing or has released the
\* gate has its client shut down, on success and on failure; and a client that
\* was shut down is never live again.
C14_ClientNestedInGate ==
    /\ [](\A t \in Threads :
            /\ th[t].pc \in {"idle", "load_message", "acquire", "make_bot"}
               => th[t].bot = "none"
            /\ th[t].bot = "live" => lock = t
            /\ th[t].pc \in {"release", "done"} => th[t].bot # "live"
            /\ th[t].pc = "release" => th[t].bot = "closed"
            /\ \A u \in Threads :
                  th[t].bot = "live" /\ th[u].bot = "live" => t = u)
    /\ [][\A t \in Threads : th[t].bot = "closed" => th'[t].bot = "closed"]_vars

\* a second broadcast has its own live client after the first broadcast, which
\* failed to send, shut its client down and released the gate
C14_Witness ==
    \E t, u \in Threads :
       /\ th[t].pc = "done"
       /\ th[t].bot = "closed"
       /\ Len(AttemptsOf(t)) > 0
       /\ AttemptsOf(t)[1].outcome = "error"
       /\ th[u].bot = "live"
       /\ lock = u

\* C13: the lock is held only by a caller that is inside the `with` block of
\* run_broadcast_now; once a caller has left it, by returning or by an
\* exception (the client failed to start, broadcast raised on batch size 0),
\* the caller no longer holds the lock.
C13_GateReleasedOnEveryExit ==
    /\ lock \in {0} \cup Threads
    /\ \A t \in Threads :
          /\ lock = t => InFlight(t)
          /\ th[t].pc = "done" => lock # t

\* a broadcast with batch size 0 has raised out of run_broadcast_now, and
\* another caller passed the gate after it
C13_Witness ==
    \E t, u \in Threads :
       /\ th[t].pc = "done"
       /\ th[t].raised
       /\ th[t].batch_size = 0
       /\ Len(th[t].chat_ids) > 0
       /\ th[t].bot = "closed"
       /\ lock = u
       /\ th[u].bot = "live"

\* C17: no two jobs of the engine carry the same name, that is the same slot
\* and phase: two jobs of the store with one tg_broadcast name are one job.
C17_UniqueSlotPhase ==
    \A j, k \in jobs :
       StartsWithTag(j.name) /\ j.name = k.name => j.id = k.id

\* C16: a call of schedule_jobs, the first and every later one, whether it
\* returns or raises, keeps every job whose name does not start with
\* tg_broadcast exactly as it was, adds no such job, and removes every job
\* whose name starts with tg_broadcast that was in the store before the call.
C16_ApplyTouchesOnlyOwnJobs ==
    [][/\ \A j \in jobs : ~StartsWithTag(j.name) => j \in jobs'
       /\ \A j \in jobs' : ~StartsWithTag(j.name) => j \in jobs
       /\ lastApply'.count # lastApply.count
          => \A j \in jobs : StartsWithTag(j.name) => j \notin jobs']_vars

\* after a re-apply that replaced the jobs of the first apply, the two other
\* jobs are still in the store and the job with a tagged name is gone
C16_Witness ==
    /\ lastApply.count = 2
    /\ ~lastApply.raised
    /\ \E j \in lastApply.before : j.id > 0
    /\ {j \in jobs : j.id < 0} = {OtherJob(-1, <<"cleanup">>), OtherJob(-2, <<>>)}
    /\ \E j \in jobs : j.id > 0 /\ j \notin lastApply.before

\* the destinations, text and media path of the attempts of job thread t are
\* those the thread read when it fired
StoreSnapshot(t) ==
    LET r == th[t]
        a == AttemptsOf(t)
    IN  /\ IsPrefix(Cids(a), PhaseIds(r.phase, r.cfg.chat_ids, r.batch_size))
        /\ \A n \in 1..Len(a) :
              /\ a[n].text = validate_lengths(r.text, TruthyPath(r.media_path))
              /\ a[n].media_path = r.media_path

\* every attempt of thread t carried the same media content
SamePayload(t) ==
    LET a == AttemptsOf(t) IN \A n \in 1..Len(a) : a[n].media = a[1].media

\* the part of C18 about the two store files alone: destinations, text and
\* media path of a scheduled broadcast are those read at firing
C18_StoreSnapshotOnly == \A t \in Threads : th[t].kind = "job" => StoreSnapshot(t)

SlotDone(p, q) ==
    /\ th[p].phase = 1 /\ th[p].pc = "done"
    /\ th[q].phase = 2 /\ th[q].pc = "done"
    /\ th[p].cfg.chat_ids = th[q].cfg.chat_ids

\* C19 as stated: when both firings of a slot loaded the same list D, phase 1
\* attempted D[0:b] and phase 2 attempted D[b:], so that together they
\* attempted every position of D exactly once.
C19_SlotCoversAll ==
    \A p, q \in Threads :
       SlotDone(p, q) =>
          LET D == th[p].cfg.chat_ids
              b == th[p].batch_size
          IN  /\ th[q].batch_size = b
              /\ Cids(AttemptsOf(p)) = PySlice(D, 0, b)
              /\ Cids(AttemptsOf(q)) = PySliceFrom(D, b)
              /\ Cids(AttemptsOf(p)) \o Cids(AttemptsOf(q)) = D

\* C19, amended: when both firings of a slot loaded the same list D, both ran
\* with the batch size b of the apply, and each firing either attempted its
\* part of D (D[0:b] for phase 1, D[b:] for phase 2), the two parts being
\* disjoint positions that make up D, or its send-client failed to start and
\* it attempted nothing.
C19_SlotCoversUnlessClientFails ==
    \A p, q \in Threads :
       SlotDone(p, q) =>
          LET D == th[p].cfg.chat_ids
              b == th[p].batch_size
              P1 == PySlice(D, 0, b)
              P2 == PySliceFrom(D, b)
          IN  /\ th[q].batch_size = b
              /\ P1 \o P2 = D
              /\ Cids(AttemptsOf(p)) = IF th[p].raised THEN <<>> ELSE P1
              /\ Cids(AttemptsOf(q)) = IF th[q].raised THEN <<>> ELSE P2
              /\ th[p].raised => th[p].bot = "closed" /\ th[p].sleeps = 0
              /\ th[q].raised => th[q].bot = "closed" /\ th[q].sleeps = 0

\* both firings of a slot over a list of three chats with batch size 2 are
\* done, and the three chats were attempted
C19_Witness ==
    \E p, q \in Threads :
       /\ SlotDone(p, q)
       /\ ~th[p].raised /\ ~th[q].raised
       /\ Len(th[p].cfg.chat_ids) = 3
       /\ th[p].batch_size = 2
       /\ Cids(sendLog) \in {<<"a", "b", "a">>, <<"a", "a", "b">>}

\* the jobs that schedule_jobs(times, off, b) registers, without their ids
Implied(times, off, b) ==
    {[name |-> JobName(1, times[k]), hour |-> times[k][1],
      minute |-> times[k][2], second |-> 0, phase |-> 1, batch_size |-> b]
       : k \in 1..Len(times)}
    \cup
    {[name |-> JobName(2, times[k]), hour |-> Hour2(times[k], off),
      minute |-> Minute2(times[k], off), second |-> 0, phase |-> 2,
      batch_size |-> b] : k \in 1..Len(times)}

\* job j without its id
NoId(j) == [name |-> j.name, hour |-> j.hour, minute |-> j.minute,
            second |-> j.second, phase |-> j.phase, batch_size |-> j.batch_size]

\* the store holds the jobs of the apply of thread t and no other job
StoreIsApplyOf(t) ==
    LET a == th[t].ap IN
    /\ {NoId(j) : j \in jobs} = Implied(a.times, a.offset[1], a.batch_size)
    /\ Cardinality(jobs) = 2 * Len(a.times)

\* C20: when two concurrent applies have both returned, the store holds the
\* jobs of one of them and no other job.
C20_ConcurrentAppliesDoNotMix ==
    (\A t \in Threads :
        th[t].kind = "apply" /\ th[t].pc = "done" /\ ~th[t].raised)
    => \E t \in Threads : StoreIsApplyOf(t)

\* C12: a button pressed while the stored target list is empty has ended with
\* st.error and, for the send buttons, without a lock, a send-client or a send
\* attempt; the step that refuses leaves the job store, the lock and the send
\* log as they are, and the thread changes none of them afterwards.
C12_EmptyTargetsRejected ==
    /\ [](\A t \in Threads :
            /\ th[t].kind \in {"button", "apply"}
            /\ th[t].pc # "idle"
            /\ ~Truthy(th[t].cfg.chat_ids)
            => /\ th[t].pc = "done"
               /\ th[t].ui = "error"
               /\ ~th[t].raised
               /\ th[t].bot = "none"
               /\ th[t].ap = NoArgs
               /\ AttemptsOf(t) = <<>>
               /\ lock # t)
    /\ [][\A t \in Threads :
            /\ th[t].pc = "idle"
            /\ th'[t].pc # "idle"
            /\ ~Truthy(targets.chat_ids)
            => /\ th'[t].ui = "error"
               /\ jobs' = jobs
               /\ nextId' = nextId
               /\ lock' = lock
               /\ sendLog' = sendLog]_vars

\* with no target stored, one thread's "Apply schedule" and another thread's
\* send button were both refused, and the store holds the two jobs it held
C12_Witness ==
    /\ targets.chat_ids = <<>>
    /\ \E t, u \in Threads :
          /\ th[t].kind = "apply" /\ th[t].ui = "error"
          /\ th[u].kind = "button" /\ th[u].ui = "error"
    /\ Cardinality(jobs) = 2
    /\ nextId = 2
    /\ sendLog = <<>>

====
